---------------------------- MODULE Spec2Model ----------------------------
(***************************************************************************)
(* A model of EScraper: the Flask control shell (src/app.py), the          *)
(* full-site scraper (src/website_scraper.py) and the sitemap archiver     *)
(* (src/sitemap_scraper.py).                                               *)
(*                                                                         *)
(* Spec        the control shell with its worker threads, on one site      *)
(* SpecScrape  one WebsiteScraper.scrape_website run, over all small sites *)
(* FairRun     one run_scraper thread, scheduled fairly (SpecRun)          *)
(* SpecPage    the download_page calls of one scraper, for any URLs   *)
(* FairArchive one download_all_sitemaps run, scheduled fairly          *)
(*             (SpecArchive)                                               *)
(***************************************************************************)
EXTENDS Integers, Sequences, FiniteSets, TLC

\* ------------------------------------------------------------- bounds
\* threads start_scraper may spawn in one behaviour
MaxRuns == 2
\* depth at which the interpreter raises RecursionError (scaled down)
RecursionLimit == 3
\* <loc> entries of one urlset document
MaxLocs == 1
\* stop requests in one behaviour
MaxStops == 1
\* parse_sitemap calls counted per sitemap URL
MaxParses == 2
\* <a> tags of one page
MaxLinks == 1
\* page GETs of the download_page calls of one scraper
MaxCalls == 3

Workers == 1..MaxRuns

\* ---------------------------------------------------------------- URLs
\* A URL is its netloc (host labels and port) and its path; a path is a
\* sequence of tokens: "/" and the reserved characters stand for themselves,
\* any other token is a run of ordinary characters.
BaseHost == <<"example", "com">>
Url(h, prt, p) == [host |-> h, port |-> prt, path |-> p]
\* WebsiteScraper.base_url: extract_base_url's scheme://netloc, rstrip('/')
BaseUrl == Url(BaseHost, "", <<>>)

PgA == Url(BaseHost, "", <<"/", "a">>)
PgA2 == Url(BaseHost, "", <<"/", "a", "/">>)
PgB == Url(BaseHost, "", <<"/", "b">>)
PgPort == Url(BaseHost, "8080", <<"/", "a">>)
PgSub == Url(<<"sub", "example", "com">>, "", <<"/", "a">>)
PgOther == Url(<<"other", "com">>, "", <<"/", "c">>)
PageUrls == {PgA, PgA2, PgB, PgPort, PgSub, PgOther}

SmMain == Url(BaseHost, "", <<"/", "sitemap.xml">>)
SmIndex == Url(BaseHost, "", <<"/", "sitemap_index.xml">>)
SmDash == Url(BaseHost, "", <<"/", "sitemap-index.xml">>)
SmPlural == Url(BaseHost, "", <<"/", "sitemaps.xml">>)
SmOne == Url(BaseHost, "", <<"/", "sitemap1.xml">>)
SmUnder == Url(BaseHost, "", <<"/", "sitemap_1.xml">>)
SmNews == Url(BaseHost, "", <<"/", "news-sitemap.xml">>)
SmUrls == {SmMain, SmIndex, SmDash, SmPlural, SmOne, SmUnder, SmNews}

\* urlparse(url).netloc: host and port, compared as one string
Netloc(u) == <<u.host, u.port>>
\* the host component of a URL
HostOf(u) == u.host

\* h is host b or a subdomain of it
IsSubdomainOrSelf(h, b) ==
    /\ Len(h) >= Len(b)
    /\ SubSeq(h, Len(h) - Len(b) + 1, Len(h)) = b

\* ---------------------------------------------------------------- site
\* What the target site serves. doc[s] is the document at sitemap URL s:
\*   absent  no such resource (HEAD and GET answer 404)
\*   notxml  200 with a body that is not XML
\*   other   well-formed XML with another root element
\*   index   <sitemapindex> listing children
\*   urlset  <urlset> listing locs
\* robots is the set of Sitemap: directives of robots.txt, html the set
\* of sitemap links of the HTML page at /sitemap, and links the hrefs of the
\* <a> tags of every page the site serves.
Doc(k, ch, ls) == [kind |-> k, children |-> ch, locs |-> ls]
Absent == Doc("absent", {}, {})
NotXml == Doc("notxml", {}, {})
OtherXml == Doc("other", {}, {})
IndexOf(ch) == Doc("index", ch, {})
UrlSetOf(ls) == Doc("urlset", {}, ls)

LocSets == {ls \in SUBSET PageUrls : Cardinality(ls) <= MaxLocs}


\* ----------------------------------------------------------- discovery
\* common_paths of WebsiteScraper.get_sitemap_urls
WebsiteCommonPaths == {SmMain, SmIndex, SmDash}
\* common_paths of QuranSitemapScraper.check_common_sitemap_locations
ArchiveCommonPaths == {SmMain, SmIndex, SmDash, SmPlural, SmOne, SmUnder}

\* the status of a HEAD or GET of sitemap URL s is 200
Status200(st, s) == st.doc[s].kind # "absent"
\* the content type is XML or the body starts with an XML declaration
LooksXml(st, s) == st.doc[s].kind \in {"other", "index", "urlset"}
\* 'sitemap' in href.lower() and href.endswith('.xml')
HrefIsSitemap(u) == u \in SmUrls

\* check_robots_txt: the Sitemap: directives of robots.txt
CheckRobotsTxt(st) == st.robots
\* check_common_sitemap_locations: HEAD 200, then confirmed as XML
CheckCommonSitemapLocations(st) ==
    {s \in ArchiveCommonPaths : Status200(st, s) /\ LooksXml(st, s)}
\* check_html_sitemap: the sitemap links of the page at /sitemap
CheckHtmlSitemap(st) == {u \in st.html : HrefIsSitemap(u)}

\* get_sitemap_urls, lines 45-72: robots.txt directives and the common
\* paths whose HEAD answers 200
SitemapsFound(st, base) ==
    IF base.host = st.host
    THEN st.robots \cup {s \in WebsiteCommonPaths : Status200(st, s)}
    ELSE {}

\* get_sitemap_urls, line 87: the URLs whose netloc is the base URL's
FilterSubdomains(found, base) ==
    {u \in found : IsSubdomainOrSelf(u.host, base.host)}
FilterDomain(found, base) == {u \in found : Netloc(u) = Netloc(base)}

\* ------------------------------------------------------- file names
Reserved == {"<", ">", ":", "\"", "|", "?", "*"}
\* the characters a token stands for
TokLen(t) ==
    CASE t = "index" -> 5
      [] t = ".html" -> 5
      [] t \in {"%2F", "%3A"} -> 3
      [] OTHER -> 1
RECURSIVE PathLen(_)
PathLen(p) == IF p = <<>> THEN 0 ELSE TokLen(Head(p)) + PathLen(Tail(p))
\* str.strip('/')
RECURSIVE LStrip(_)
LStrip(p) == IF p # <<>> /\ Head(p) = "/" THEN LStrip(Tail(p)) ELSE p
RECURSIVE RStrip(_)
RStrip(p) ==
    IF p # <<>> /\ p[Len(p)] = "/" THEN RStrip(SubSeq(p, 1, Len(p) - 1)) ELSE p
Strip(p) == RStrip(LStrip(p))
\* urllib.parse.unquote of one token
Unquote(t) == CASE t = "%2F" -> "/" [] t = "%3A" -> ":" [] OTHER -> t
\* path[:200]: the longest prefix of whole tokens within the limit
NameLimit == 200
RECURSIVE Truncate(_, _)
Truncate(p, n) ==
    IF p = <<>> \/ TokLen(Head(p)) > n THEN <<>>
    ELSE <<Head(p)>> \o Truncate(Tail(p), n - TokLen(Head(p)))
\* WebsiteScraper.sanitize_filename
sanitize_filename(u) ==
    LET stripped == Strip(u.path)
        path == IF stripped = <<>> THEN <<"index">> ELSE stripped
        replaced == [i \in 1..Len(path) |->
                        IF path[i] \in Reserved \cup {"/"} THEN "_" ELSE path[i]]
        decoded == [i \in 1..Len(replaced) |-> Unquote(replaced[i])]
        cut == IF PathLen(decoded) > NameLimit
               THEN Truncate(decoded, NameLimit) ELSE decoded
    IN  IF cut # <<>> /\ cut[Len(cut)] = ".html" THEN cut ELSE cut \o <<".html">>

\* list(urls)[:n] keeps this many of m elements
SliceLenOneMore(m, n) == IF n + 1 < m THEN n + 1 ELSE m
SliceLen(m, n) == IF n >= 0 THEN (IF n < m THEN n ELSE m)
                  ELSE (IF m + n > 0 THEN m + n ELSE 0)
\* an optional integer: {} is None, {n} is n
None == {}
Some(n) == {n}
ValueOf(o) == CHOOSE n \in o : TRUE
\* Python truth of an optional integer
Truthy(o) == o # None /\ o # Some(0)


\* ------------------------------------------------------------ links
\* An href is written like a URL: an absolute one has a host, a rooted one
\* has none and a path that starts with "/", any other is relative to the
\* directory of the document that holds it.
HrefRootedB == Url(<<>>, "", <<"/", "b">>)
HrefRelB == Url(<<>>, "", <<"b">>)
Hrefs == {HrefRootedB, HrefRelB, PgA, PgSub, PgOther}
\* the URLs download_page is called for
PageTargets == {PgA, PgA2, PgOther}
\* the path up to and including its last "/"
RECURSIVE DirOf(_)
DirOf(p) ==
    IF p = <<>> THEN <<"/">>
    ELSE IF p[Len(p)] = "/" THEN p ELSE DirOf(SubSeq(p, 1, Len(p) - 1))
\* urllib.parse.urljoin(current_url, href)
urljoin(current, href) ==
    IF href.host # <<>> THEN href
    ELSE IF href.path # <<>> /\ Head(href.path) = "/"
    THEN Url(current.host, current.port, href.path)
    ELSE Url(current.host, current.port, DirOf(current.path) \o href.path)
\* _fix_links, line 208: the href written for a same-domain link
LocalHref(filename) == Url(<<>>, "", <<"pages", "/">> \o filename)
\* _fix_links, lines 200-212: every <a href> of the document, as it is left
fix_links(hrefs, current_url, base) ==
    {LET absolute_url == urljoin(current_url, h) IN
        IF Netloc(absolute_url) = Netloc(base)
        THEN [orig |-> h, href |-> LocalHref(sanitize_filename(absolute_url)),
              target |-> "", rel |-> ""]
        ELSE [orig |-> h, href |-> h,
              target |-> "_blank", rel |-> "noopener noreferrer"]
     : h \in hrefs}

\* ------------------------------------------------------ index page
\* A title is a sequence of characters. The page at /a is titled "a", the
\* page at /a/ "A" and the page at /b "B"; a page without a <title> is
\* titled by its URL (download_page, lines 167-168), of which the first
\* letter, of the scheme, is kept.
PageTitle(u) ==
    IF u = PgA THEN <<"a">>
    ELSE IF u = PgA2 THEN <<"A">>
    ELSE IF u = PgB THEN <<"B">> ELSE <<"h">>
\* ord(c)
Ord(c) ==
    CASE c = "A" -> 65 [] c = "B" -> 66 [] c = "a" -> 97 [] c = "b" -> 98
      [] c = "h" -> 104
\* str.lower, character by character
LowerChar(c) == CASE c = "A" -> "a" [] c = "B" -> "b" [] OTHER -> c
Lower(t) == [i \in 1..Len(t) |-> LowerChar(t[i])]
\* s < t for strings
RECURSIVE StrLess(_, _)
StrLess(s, t) ==
    IF t = <<>> THEN FALSE
    ELSE IF s = <<>> THEN TRUE
    ELSE IF Head(s) # Head(t) THEN Ord(Head(s)) < Ord(Head(t))
    ELSE StrLess(Tail(s), Tail(t))
\* create_index_page, line 240: the sort key
TitleKeyCased(page) == page.title
TitleKey(page) == Lower(page.title)
\* sorted(pages, key): stable, ascending
RECURSIVE InsertSorted(_, _)
InsertSorted(page, pages) ==
    IF pages = <<>> THEN <<page>>
    ELSE IF StrLess(TitleKey(page), TitleKey(Head(pages)))
    THEN <<page>> \o pages
    ELSE <<Head(pages)>> \o InsertSorted(page, Tail(pages))
RECURSIVE sorted(_)
sorted(pages) ==
    IF pages = <<>> THEN <<>>
    ELSE InsertSorted(pages[Len(pages)],
                      sorted(SubSeq(pages, 1, Len(pages) - 1)))
\* create_index_page, lines 396-407: one entry for each page
IndexEntries(pages) ==
    [i \in 1..Len(pages) |->
        [title |-> pages[i].title, url |-> pages[i].url,
         href |-> pages[i].filepath]]

\* ---------------------------------------------------------------- state
VARIABLES
    site,          \* what the target site serves (fixed in a behaviour)
    is_running,    \* app.py global
    should_stop,   \* app.py global, read by stop_callback
    output_queue,  \* app.py global: the progress feed, items <<run, kind>>
    disk,          \* artifacts under offline_website/
    starter,       \* the request thread in start_scraper
    stopper,       \* the request thread in stop_scraper; history: the runs
                   \* started when the request was accepted (since) and
                   \* when the request that set the flag last was (origin)
    threads,       \* threading.Thread objects started so far
    pc,            \* each worker thread's position
    base_url,      \* WebsiteScraper.base_url
    max_pages,     \* WebsiteScraper.max_pages
    sitemaps_found, \* get_sitemap_urls: the seed set
    todo,          \* get_sitemap_urls: seeds the for loop has not reached
    all_urls,      \* get_sitemap_urls: URLs extracted so far
    stack,         \* frames of _extract_urls_from_sitemap on a sitemap index
    filtered_urls, \* get_sitemap_urls: its return value
    urls,          \* scrape_website: the URLs scheduled for download
    remaining,     \* scrape_website: scheduled URLs the loop has not reached
    cur,           \* the argument of the download_page call in progress
    downloaded_urls, failed_urls, pages_data,  \* WebsiteScraper storage
    sm_fetches,    \* history: GETs of each sitemap URL by the run
    page_fetches,  \* history: page GETs of the run, in order
    observed,      \* history: the run saw the stop flag set at a check point
    writes,        \* history: artifacts the run wrote, in order
    emitted,       \* history: kinds of the items the run put on the feed
    stop_accepted, \* history: a stop request was accepted during the run
    a_pc,          \* QuranSitemapScraper: the position of download_all_sitemaps
    sitemap_urls,  \* the argument of the outermost download_all_sitemaps call
    all_sitemaps,  \* discover_all_sitemaps: the sitemaps found so far
    a_todo,        \* download_all_sitemaps: URLs the for loop has not reached
    nested_sitemaps, \* download_all_sitemaps: children of the indexes parsed
    found_sitemaps, downloaded_sitemaps,  \* QuranSitemapScraper storage
    sitemap_files, \* files under sitemaps/
    parse_calls,   \* history: parse_sitemap calls per sitemap URL
    a_observed,    \* history: stop_callback answered true at a check point
    result,        \* the return statement the last download_page call took
    soup,          \* the <a> tags of the document download_page saved last
    index_html     \* the entries of the index.html a run wrote, in order

archVars == <<a_pc, sitemap_urls, all_sitemaps, a_todo, nested_sitemaps,
              found_sitemaps, downloaded_sitemaps, sitemap_files,
              parse_calls, a_observed>>
\* what no step of the control shell or of the full-site scraper changes
pageVars == <<result, soup, index_html>>
env == <<site, archVars, pageVars>>
shellVars == <<is_running, should_stop, output_queue, starter, stopper,
               threads, emitted, stop_accepted>>
resolveVars == <<sitemaps_found, todo, all_urls, stack, filtered_urls,
                 sm_fetches>>
crawlVars == <<urls, remaining, cur, downloaded_urls, failed_urls,
               pages_data, page_fetches, writes, disk>>
scrapeVars == <<env, pc, base_url, max_pages, observed, resolveVars,
                crawlVars>>
vars == <<shellVars, scrapeVars>>

\* ------------------------------------------- WebsiteScraper (one run)
\* WebsiteScraper.__init__: empty storage
FreshScraper(w) ==
    /\ sitemaps_found' = [sitemaps_found EXCEPT ![w] = {}]
    /\ todo' = [todo EXCEPT ![w] = {}]
    /\ all_urls' = [all_urls EXCEPT ![w] = {}]
    /\ stack' = [stack EXCEPT ![w] = <<>>]
    /\ filtered_urls' = [filtered_urls EXCEPT ![w] = {}]
    /\ urls' = [urls EXCEPT ![w] = {}]
    /\ remaining' = [remaining EXCEPT ![w] = {}]
    /\ downloaded_urls' = [downloaded_urls EXCEPT ![w] = {}]
    /\ failed_urls' = [failed_urls EXCEPT ![w] = {}]
    /\ pages_data' = [pages_data EXCEPT ![w] = <<>>]

\* get_sitemap_urls, lines 45-75: robots.txt and the common paths
GetSitemapUrls(w) ==
    /\ pc[w] = "gs_discover"
    /\ sitemaps_found' = [sitemaps_found EXCEPT ![w] = SitemapsFound(site, base_url[w])]
    /\ todo' = [todo EXCEPT ![w] = SitemapsFound(site, base_url[w])]
    /\ pc' = [pc EXCEPT ![w] = "gs_loop"]
    /\ UNCHANGED <<shellVars, env, base_url, max_pages, observed, all_urls, stack,
                   filtered_urls, sm_fetches, crawlVars>>

\* get_sitemap_urls, line 77: stop_callback() before a seed is resolved
StopBeforeSeed(w) == should_stop

\* the result of a GET of sitemap URL s parsed by _extract_urls_from_sitemap
\* when it is no sitemap index: the locs of a urlset, nothing otherwise
LeafUrls(s) == IF site.doc[s].kind = "urlset" THEN site.doc[s].locs ELSE {}

\* get_sitemap_urls, lines 76-82: the loop takes the next seed, and
\* _extract_urls_from_sitemap GETs and parses it (lines 96-114)
GsNext(w) ==
    /\ pc[w] = "gs_loop"
    /\ todo[w] # {}
    /\ ~StopBeforeSeed(w)
    /\ \E s \in todo[w] :
        /\ todo' = [todo EXCEPT ![w] = @ \ {s}]
        /\ sm_fetches' = [sm_fetches EXCEPT ![w][s] = @ + 1]
        /\ IF site.doc[s].kind = "index"
           THEN /\ stack' = [stack EXCEPT ![w] =
                        <<[sm |-> s, rest |-> site.doc[s].children, acc |-> {}]>>]
                /\ pc' = [pc EXCEPT ![w] = "extract"]
                /\ UNCHANGED all_urls
           ELSE /\ all_urls' = [all_urls EXCEPT ![w] = @ \cup LeafUrls(s)]
                /\ UNCHANGED <<stack, pc>>
    /\ UNCHANGED <<shellVars, env, base_url, max_pages, observed, sitemaps_found,
                   filtered_urls, crawlVars>>

\* _extract_urls_from_sitemap, lines 102-106, in the frame of a sitemap index:
\* the next <sitemap><loc> is resolved by a recursive call, which GETs it
\* without consulting stop_callback. A call beyond the interpreter's recursion
\* limit raises RecursionError, which the callee's except clause (line 115)
\* turns into an empty result.
ExtractNested(w) ==
    /\ pc[w] = "extract"
    /\ LET top == stack[w][Len(stack[w])] IN
       /\ top.rest # {}
       /\ \E c \in top.rest :
           IF Len(stack[w]) >= RecursionLimit
           THEN /\ stack' = [stack EXCEPT ![w] =
                        [@ EXCEPT ![Len(@)].rest = top.rest \ {c}]]
                /\ UNCHANGED sm_fetches
           ELSE /\ sm_fetches' = [sm_fetches EXCEPT ![w][c] = @ + 1]
                /\ IF site.doc[c].kind = "index"
                   THEN stack' = [stack EXCEPT ![w] =
                           Append([@ EXCEPT ![Len(@)].rest = top.rest \ {c}],
                                  [sm |-> c, rest |-> site.doc[c].children,
                                   acc |-> {}])]
                   ELSE stack' = [stack EXCEPT ![w] =
                           [@ EXCEPT ![Len(@)].rest = top.rest \ {c},
                                     ![Len(@)].acc = top.acc \cup LeafUrls(c)]]
    /\ UNCHANGED <<shellVars, env, pc, base_url, max_pages, observed, sitemaps_found,
                   todo, all_urls, filtered_urls, crawlVars>>

\* _extract_urls_from_sitemap, line 118: a sitemap index frame returns its
\* urls to the caller (line 106, or lines 80-81 of get_sitemap_urls)
ExtractReturn(w) ==
    /\ pc[w] = "extract"
    /\ LET n == Len(stack[w])
           top == stack[w][n]
       IN
       /\ top.rest = {}
       /\ IF n = 1
          THEN /\ all_urls' = [all_urls EXCEPT ![w] = @ \cup top.acc]
               /\ stack' = [stack EXCEPT ![w] = <<>>]
               /\ pc' = [pc EXCEPT ![w] = "gs_loop"]
          ELSE /\ stack' = [stack EXCEPT ![w] =
                       [SubSeq(@, 1, n - 1) EXCEPT ![n - 1].acc = @ \cup top.acc]]
               /\ UNCHANGED <<all_urls, pc>>
    /\ UNCHANGED <<shellVars, env, base_url, max_pages, observed, sitemaps_found, todo,
                   filtered_urls, sm_fetches, crawlVars>>

\* get_sitemap_urls, lines 77-78 and 86-90: the loop ends, by exhaustion or
\* by break on the stop flag, and the extracted URLs are filtered
GsReturn(w) ==
    /\ pc[w] = "gs_loop"
    /\ todo[w] = {} \/ StopBeforeSeed(w)
    /\ observed' = [observed EXCEPT ![w] = @ \/ (todo[w] # {})]
    /\ filtered_urls' = [filtered_urls EXCEPT ![w] = FilterDomain(all_urls[w], base_url[w])]
    /\ pc' = [pc EXCEPT ![w] = "sw_urls"]
    /\ UNCHANGED <<shellVars, env, base_url, max_pages, sitemaps_found, todo, all_urls,
                   stack, sm_fetches, crawlVars>>

\* ------------------------------------------------ scrape_website
\* artifacts under offline_website/
PageFile(name) == <<"pages", name>>
IndexFile == <<"index.html">>
ReportFile == <<"scrape_report.json">>

\* scrape_website, lines 455-464: the fallback to the base URL and the cap.
\* list(urls) orders the set arbitrarily, so any subset of the sliced size
\* may be the one kept.
ScrapeTargets(w) ==
    /\ pc[w] = "sw_urls"
    /\ LET found == IF filtered_urls[w] = {} THEN {base_url[w]}
                    ELSE filtered_urls[w]
           keep == IF Truthy(max_pages[w])
                   THEN SliceLen(Cardinality(found), ValueOf(max_pages[w]))
                   ELSE Cardinality(found)
       IN \E kept \in {k \in SUBSET found : Cardinality(k) = keep} :
            /\ urls' = [urls EXCEPT ![w] = kept]
            /\ remaining' = [remaining EXCEPT ![w] = kept]
    /\ pc' = [pc EXCEPT ![w] = "sw_loop"]
    /\ UNCHANGED <<shellVars, env, base_url, max_pages, observed, resolveVars, cur,
                   downloaded_urls, failed_urls, pages_data, page_fetches,
                   writes, disk>>

\* scrape_website, lines 472-478: the loop takes the next URL unless the stop
\* flag is set
ScrapeNext(w) ==
    /\ pc[w] = "sw_loop"
    /\ remaining[w] # {}
    /\ ~should_stop
    /\ \E u \in remaining[w] :
        /\ remaining' = [remaining EXCEPT ![w] = @ \ {u}]
        /\ cur' = [cur EXCEPT ![w] = u]
    /\ pc' = [pc EXCEPT ![w] = "download_page"]
    /\ UNCHANGED <<shellVars, env, base_url, max_pages, observed, resolveVars, urls,
                   downloaded_urls, failed_urls, pages_data, page_fetches,
                   writes, disk>>

\* scrape_website, lines 473-475 and 481: the loop ends, by exhaustion or by
\* break on the stop flag
ScrapeLoopEnd(w) ==
    /\ pc[w] = "sw_loop"
    /\ remaining[w] = {} \/ should_stop
    /\ observed' = [observed EXCEPT ![w] = @ \/ (remaining[w] # {})]
    /\ pc' = [pc EXCEPT ![w] = "sw_index"]
    /\ UNCHANGED <<shellVars, env, base_url, max_pages, resolveVars, crawlVars>>

\* download_page, lines 145-149: the membership test comes first, so that a
\* URL already downloaded returns True whatever the stop flag says
StoppedOrAlready(u, downloaded) ==
    IF should_stop THEN "stopped" ELSE "already"
AlreadyOrStopped(u, downloaded) ==
    IF u \in downloaded THEN "already" ELSE "stopped"
\* the value download_page returns by each of its return statements
ReturnValue(r) == r \in {"already", "saved"}

\* download_page, lines 145-149: nothing to do for a URL already downloaded,
\* and nothing is done once the stop flag is set
DownloadSkipMarksFailed(w) ==
    /\ pc[w] = "download_page"
    /\ cur[w] \in downloaded_urls[w] \/ should_stop
    /\ observed' = [observed EXCEPT ![w] = @ \/ (cur[w] \notin downloaded_urls[w])]
    /\ result' = [result EXCEPT ![w] = AlreadyOrStopped(cur[w], downloaded_urls[w])]
    /\ failed_urls' = [failed_urls EXCEPT ![w] =
           IF cur[w] \in downloaded_urls[w] THEN @ ELSE @ \cup {cur[w]}]
    /\ pc' = [pc EXCEPT ![w] = "sw_loop"]
    /\ UNCHANGED <<shellVars, site, archVars, soup, index_html, base_url, max_pages,
                   resolveVars, urls, remaining, cur, downloaded_urls,
                   pages_data, page_fetches, writes, disk>>
DownloadSkip(w) ==
    /\ pc[w] = "download_page"
    /\ cur[w] \in downloaded_urls[w] \/ should_stop
    /\ observed' = [observed EXCEPT ![w] = @ \/ (cur[w] \notin downloaded_urls[w])]
    /\ result' = [result EXCEPT ![w] = AlreadyOrStopped(cur[w], downloaded_urls[w])]
    /\ pc' = [pc EXCEPT ![w] = "sw_loop"]
    /\ UNCHANGED <<shellVars, site, archVars, soup, index_html, base_url, max_pages,
                   resolveVars, crawlVars>>

\* download_page, lines 151-158 and 190-193: the GET fails (status other than
\* 200, or an exception of the transport or the parser)
DownloadFailRetries(w) ==
    /\ pc[w] = "download_page"
    /\ cur[w] \notin downloaded_urls[w]
    /\ ~should_stop
    /\ page_fetches' = [page_fetches EXCEPT ![w] = Append(@, cur[w])]
    /\ failed_urls' = [failed_urls EXCEPT ![w] = @ \cup {cur[w]}]
    /\ remaining' = [remaining EXCEPT ![w] =
           IF cur[w] \in failed_urls[w] THEN @ ELSE @ \cup {cur[w]}]
    /\ result' = [result EXCEPT ![w] = "failed"]
    /\ pc' = [pc EXCEPT ![w] = "sw_loop"]
    /\ UNCHANGED <<shellVars, site, archVars, soup, index_html, base_url, max_pages,
                   observed, resolveVars, urls,
                   cur, downloaded_urls, pages_data, writes, disk>>
DownloadFail(w) ==
    /\ pc[w] = "download_page"
    /\ cur[w] \notin downloaded_urls[w]
    /\ ~should_stop
    /\ page_fetches' = [page_fetches EXCEPT ![w] = Append(@, cur[w])]
    /\ failed_urls' = [failed_urls EXCEPT ![w] = @ \cup {cur[w]}]
    /\ result' = [result EXCEPT ![w] = "failed"]
    /\ pc' = [pc EXCEPT ![w] = "sw_loop"]
    /\ UNCHANGED <<shellVars, site, archVars, soup, index_html, base_url, max_pages,
                   observed, resolveVars, urls,
                   remaining, cur, downloaded_urls, pages_data, writes, disk>>

\* download_page, lines 151-188: the GET answers 200; the page is saved under
\* its sanitized name and recorded
DownloadOk(w) ==
    /\ pc[w] = "download_page"
    /\ cur[w].host # <<>>
    /\ cur[w] \notin downloaded_urls[w]
    /\ ~should_stop
    /\ LET filename == sanitize_filename(cur[w]) IN
        /\ page_fetches' = [page_fetches EXCEPT ![w] = Append(@, cur[w])]
        /\ disk' = disk \cup {PageFile(filename)}
        /\ writes' = [writes EXCEPT ![w] = Append(@, PageFile(filename))]
        /\ pages_data' = [pages_data EXCEPT ![w] =
               Append(@, [url |-> cur[w], title |-> PageTitle(cur[w]),
                          filename |-> filename,
                          filepath |-> PageFile(filename)])]
        /\ downloaded_urls' = [downloaded_urls EXCEPT ![w] = @ \cup {cur[w]}]
    /\ soup' = [soup EXCEPT ![w] = fix_links(site.links, cur[w], base_url[w])]
    /\ result' = [result EXCEPT ![w] = "saved"]
    /\ pc' = [pc EXCEPT ![w] = "sw_loop"]
    /\ UNCHANGED <<shellVars, site, archVars, index_html, base_url, max_pages,
                   observed, resolveVars, urls, remaining, cur, failed_urls>>

\* scrape_website, lines 482-483: create_index_page when a page was recorded
CreateIndexPage(w) ==
    /\ pc[w] = "sw_index"
    /\ IF pages_data[w] # <<>>
       THEN /\ disk' = disk \cup {IndexFile}
            /\ writes' = [writes EXCEPT ![w] = Append(@, IndexFile)]
            /\ index_html' = [index_html EXCEPT ![w] =
                   IndexEntries(sorted(pages_data[w]))]
       ELSE UNCHANGED <<disk, writes, index_html>>
    /\ pc' = [pc EXCEPT ![w] = "sw_report"]
    /\ UNCHANGED <<shellVars, site, archVars, result, soup, base_url,
                   max_pages, observed, resolveVars, urls,
                   remaining, cur, downloaded_urls, failed_urls, pages_data,
                   page_fetches>>

\* scrape_website, line 486: generate_report writes scrape_report.json
GenerateReportTwice(w) ==
    /\ pc[w] = "sw_report"
    /\ disk' = disk \cup {ReportFile}
    /\ writes' = [writes EXCEPT ![w] = Append(Append(@, ReportFile), ReportFile)]
    /\ pc' = [pc EXCEPT ![w] = "sw_return"]
    /\ UNCHANGED <<shellVars, env, base_url, max_pages, observed, resolveVars, urls,
                   remaining, cur, downloaded_urls, failed_urls, pages_data,
                   page_fetches>>
GenerateReport(w) ==
    /\ pc[w] = "sw_report"
    /\ disk' = disk \cup {ReportFile}
    /\ writes' = [writes EXCEPT ![w] = Append(@, ReportFile)]
    /\ pc' = [pc EXCEPT ![w] = "sw_return"]
    /\ UNCHANGED <<shellVars, env, base_url, max_pages, observed, resolveVars, urls,
                   remaining, cur, downloaded_urls, failed_urls, pages_data,
                   page_fetches>>

\* open() of index.html or scrape_report.json raises OSError: nothing in
\* scrape_website catches it
ScrapeRaise(w) ==
    /\ pc[w] \in {"sw_index", "sw_report"}
    /\ pc[w] = "sw_index" => pages_data[w] # <<>>
    /\ pc' = [pc EXCEPT ![w] = "sw_raised"]
    /\ UNCHANGED <<shellVars, env, base_url, max_pages, observed, resolveVars, crawlVars>>

\* download_page, line 143: a call of the method for any URL, from where
\* the loop of scrape_website calls it
DownloadPageCall(w) ==
    /\ pc[w] = "sw_loop"
    /\ Len(page_fetches[w]) < MaxCalls
    /\ \E u \in PageTargets : cur' = [cur EXCEPT ![w] = u]
    /\ pc' = [pc EXCEPT ![w] = "download_page"]
    /\ UNCHANGED <<shellVars, env, base_url, max_pages, observed, resolveVars,
                   urls, remaining, downloaded_urls, failed_urls, pages_data,
                   page_fetches, writes, disk>>

ScrapeStep(w) ==
    \/ GetSitemapUrls(w)
    \/ GsNext(w)
    \/ ExtractNested(w)
    \/ ExtractReturn(w)
    \/ GsReturn(w)
    \/ ScrapeTargets(w)
    \/ ScrapeNext(w)
    \/ ScrapeLoopEnd(w)
    \/ DownloadSkip(w)
    \/ DownloadFail(w)
    \/ DownloadOk(w)
    \/ CreateIndexPage(w)
    \/ GenerateReport(w)
    \/ ScrapeRaise(w)

\* ------------------------------------------------------ app.py
\* request bodies of /api/start
UrlInputs == {"", "https://example.com/docs", "example"}
CapInputs == {None}
\* str.strip() then truth of the url field
UrlGiven(url) == url # ""
\* extract_base_url: scheme://netloc of urlparse(url); a string without a
\* scheme parses to an empty scheme and netloc, and nothing is raised
extract_base_url(url) ==
    IF url = "https://example.com/docs" THEN BaseUrl ELSE Url(<<>>, "", <<>>)

Put(w, kinds) ==
    /\ output_queue' = output_queue \o [i \in 1..Len(kinds) |-> <<w, kinds[i]>>]
    /\ emitted' = [emitted EXCEPT ![w] = @ \o kinds]

\* the run of worker w is between line 53 and line 78 of run_scraper
InProgress(w) ==
    pc[w] \notin {"unborn", "rs_begin", "rs_sentinel", "done"}

\* start_scraper, lines 93-114: the request is rejected, and changes nothing,
\* while is_running is set or without a url; it goes on otherwise
StartRequest ==
    /\ starter.pc = "idle"
    /\ threads < MaxRuns
    /\ \E url \in UrlInputs, mp \in CapInputs :
        starter' =
            IF is_running \/ ~UrlGiven(url) THEN starter
            ELSE [pc |-> "clear", base |-> extract_base_url(url), cap |-> mp]
    /\ UNCHANGED <<is_running, should_stop, output_queue, stopper, threads, emitted, stop_accepted, scrapeVars>>

\* start_scraper, lines 117-121: the feed is emptied
StartClear ==
    /\ starter.pc = "clear"
    /\ output_queue' = <<>>
    /\ starter' = [starter EXCEPT !.pc = "spawn"]
    /\ UNCHANGED <<is_running, should_stop, stopper, threads,
                   emitted, stop_accepted, scrapeVars>>

\* start_scraper, lines 123-127: the stop flag is reset and the worker thread
\* started
StartSpawn ==
    /\ starter.pc = "spawn"
    /\ should_stop' = FALSE
    /\ threads' = threads + 1
    /\ pc' = [pc EXCEPT ![threads + 1] = "rs_begin"]
    /\ base_url' = [base_url EXCEPT ![threads + 1] = starter.base]
    /\ max_pages' = [max_pages EXCEPT ![threads + 1] = starter.cap]
    /\ starter' = [pc |-> "idle", base |-> BaseUrl, cap |-> None]
    /\ UNCHANGED <<is_running, output_queue, stopper, emitted,
                   stop_accepted, env, observed, resolveVars, crawlVars>>

\* stop_scraper, lines 135-136: the request is rejected unless is_running
StopRequest ==
    /\ stopper.pc = "idle"
    /\ stopper.requests < MaxStops
    /\ stopper' = [pc |-> IF is_running THEN "set" ELSE "idle",
                   requests |-> stopper.requests + 1,
                   since |-> IF is_running THEN threads ELSE stopper.since,
                   origin |-> stopper.origin]
    /\ UNCHANGED <<is_running, should_stop, output_queue, starter, threads, emitted, stop_accepted, scrapeVars>>

\* stop_scraper, line 138
StopSet ==
    /\ stopper.pc = "set"
    /\ should_stop' = TRUE
    /\ stopper' = [stopper EXCEPT !.pc = "notice", !.origin = stopper.since]
    /\ UNCHANGED <<is_running, output_queue, starter, threads,
                   emitted, stop_accepted, scrapeVars>>

\* stop_scraper, lines 139-141: the notice is put on the feed and the request
\* answered
StopNotice ==
    /\ stopper.pc = "notice"
    /\ output_queue' = Append(output_queue, <<0, "stopping">>)
    /\ stopper' = [stopper EXCEPT !.pc = "idle"]
    /\ stop_accepted' = [w \in Workers |-> stop_accepted[w] \/ InProgress(w)]
    /\ UNCHANGED <<is_running, should_stop, starter, threads,
                   emitted, scrapeVars>>

\* run_scraper, line 53
RunBegin(w) ==
    /\ pc[w] = "rs_begin"
    /\ is_running' = TRUE
    /\ pc' = [pc EXCEPT ![w] = "rs_reset"]
    /\ UNCHANGED <<should_stop, output_queue, starter, stopper,
                   threads, emitted, stop_accepted, env, base_url, max_pages,
                   observed, resolveVars, crawlVars>>

\* run_scraper, lines 54-64: the stop flag is reset, the scraper constructed
\* and scrape_website entered
RunReset(w) ==
    /\ pc[w] = "rs_reset"
    /\ should_stop' = FALSE
    /\ FreshScraper(w)
    /\ pc' = [pc EXCEPT ![w] = "gs_discover"]
    /\ UNCHANGED <<is_running, output_queue, starter, stopper, threads,
                   emitted, stop_accepted, env, base_url, max_pages, observed,
                   sm_fetches, cur, page_fetches, writes, disk>>

\* run_scraper, lines 66-70: the outcome is read off the stop flag
RunOutcome(w) ==
    /\ pc[w] = "sw_return"
    /\ IF ~should_stop THEN Put(w, <<"completed", "index at">>)
       ELSE Put(w, <<"stopped">>)
    /\ pc' = [pc EXCEPT ![w] = "rs_finally"]
    /\ UNCHANGED <<is_running, should_stop, starter, stopper,
                   threads, stop_accepted, env, base_url, max_pages, observed,
                   resolveVars, crawlVars>>

\* run_scraper, lines 72-75: the message and the trace of an exception
RunExceptEscapes(w) ==
    /\ pc[w] = "sw_raised"
    /\ Put(w, <<"error", "trace">>)
    /\ pc' = [pc EXCEPT ![w] = "done"]
    /\ UNCHANGED <<is_running, should_stop, starter, stopper,
                   threads, stop_accepted, env, base_url, max_pages, observed,
                   resolveVars, crawlVars>>
RunExcept(w) ==
    /\ pc[w] = "sw_raised"
    /\ Put(w, <<"error", "trace">>)
    /\ pc' = [pc EXCEPT ![w] = "rs_finally"]
    /\ UNCHANGED <<is_running, should_stop, starter, stopper,
                   threads, stop_accepted, env, base_url, max_pages, observed,
                   resolveVars, crawlVars>>

\* run_scraper, lines 77-78
RunFinally(w) ==
    /\ pc[w] = "rs_finally"
    /\ is_running' = FALSE
    /\ pc' = [pc EXCEPT ![w] = "rs_sentinel"]
    /\ UNCHANGED <<should_stop, output_queue, starter, stopper, threads,
                   emitted, stop_accepted, env, base_url, max_pages, observed,
                   resolveVars, crawlVars>>

\* run_scraper, line 79
RunSentinel(w) ==
    /\ pc[w] = "rs_sentinel"
    /\ Put(w, <<"__SCRAPER_FINISHED__">>)
    /\ pc' = [pc EXCEPT ![w] = "done"]
    /\ UNCHANGED <<is_running, should_stop, starter, stopper,
                   threads, stop_accepted, env, base_url, max_pages, observed,
                   resolveVars, crawlVars>>

\* the steps of the thread running run_scraper
WorkerStep(w) ==
    \/ RunBegin(w)
    \/ RunReset(w)
    \/ ScrapeStep(w)
    \/ RunOutcome(w)
    \/ RunExcept(w)
    \/ RunFinally(w)
    \/ RunSentinel(w)

\* --------------------------------- QuranSitemapScraper (one archive run)
\* the sitemap URLs an archive run can meet
ArchiveUrls == {SmMain, SmPlural, SmNews}
\* parse_sitemap, line 103: the last path segment, or sitemap.xml
SitemapFile(u) ==
    IF u.path = <<>> \/ u.path[Len(u.path)] = "/" THEN "sitemap.xml"
    ELSE u.path[Len(u.path)]
\* parse_sitemap, lines 99-100: the GET succeeds with a 2xx status
Fetched(st, u) == st.doc[u].kind # "absent"
\* parse_sitemap, line 110: ET.fromstring accepts the body
Parsed(st, u) == st.doc[u].kind \in {"other", "index", "urlset"}
\* parse_sitemap, lines 113-145: the sitemap_info of a parsed document
SitemapInfo(st, u) ==
    [url |-> u,
     type |-> IF st.doc[u].kind = "index" THEN "sitemapindex"
              ELSE IF st.doc[u].kind = "urlset" THEN "urlset" ELSE "None",
     sitemaps |-> st.doc[u].children,
     urls |-> st.doc[u].locs]
\* download_all_sitemaps, line 205: the URL is recorded as visited
MarkFoundForgets(found, u) == found
MarkFound(found, u) == found \cup {u}
\* download_all_sitemaps, line 213: the children not yet visited
Remaining(nested, found) == nested \ found
\* the parse_sitemap calls of one URL, counted up to MaxParses
Counted(n) == IF n < MaxParses THEN n + 1 ELSE n

\* download_all_sitemaps, lines 188-196 (and 216 for the nested call): the
\* body of a call on the set S starts, or returns at once on an empty set
EnterCall(S) ==
    /\ a_pc' = IF S = {} THEN "done" ELSE "loop"
    /\ a_todo' = S
    /\ nested_sitemaps' = {}

\* download_all_sitemaps, lines 185-186: the outermost call, with its
\* argument or with discovery
DownloadAllSitemaps ==
    /\ a_pc = "call"
    /\ IF sitemap_urls = None
       THEN /\ a_pc' = "robots"
            /\ UNCHANGED <<a_todo, nested_sitemaps>>
       ELSE EnterCall(ValueOf(sitemap_urls))
    /\ UNCHANGED <<sitemap_urls, all_sitemaps, found_sitemaps,
                   downloaded_sitemaps, sitemap_files, parse_calls, a_observed,
                   site, pageVars, shellVars, pc, disk, base_url, max_pages, observed,
                   resolveVars, crawlVars>>

\* discover_all_sitemaps, lines 161-165: method 1, robots.txt
DiscoverRobots ==
    /\ a_pc = "robots"
    /\ all_sitemaps' = all_sitemaps \cup CheckRobotsTxt(site)
    /\ a_pc' = "common"
    /\ UNCHANGED <<sitemap_urls, a_todo, nested_sitemaps, found_sitemaps,
                   downloaded_sitemaps, sitemap_files, parse_calls, a_observed,
                   site, pageVars, shellVars, pc, disk, base_url, max_pages, observed,
                   resolveVars, crawlVars>>

\* discover_all_sitemaps, lines 168-172: method 2, the well-known locations
DiscoverCommon ==
    /\ a_pc = "common"
    /\ all_sitemaps' = all_sitemaps \cup CheckCommonSitemapLocations(site)
    /\ a_pc' = "html"
    /\ UNCHANGED <<sitemap_urls, a_todo, nested_sitemaps, found_sitemaps,
                   downloaded_sitemaps, sitemap_files, parse_calls, a_observed,
                   site, pageVars, shellVars, pc, disk, base_url, max_pages, observed,
                   resolveVars, crawlVars>>

\* discover_all_sitemaps, lines 175-181: method 3, the HTML sitemap page,
\* and the return into download_all_sitemaps
DiscoverHtml ==
    /\ a_pc = "html"
    /\ all_sitemaps' = all_sitemaps \cup CheckHtmlSitemap(site)
    /\ EnterCall(all_sitemaps')
    /\ UNCHANGED <<sitemap_urls, found_sitemaps,
                   downloaded_sitemaps, sitemap_files, parse_calls, a_observed,
                   site, pageVars, shellVars, pc, disk, base_url, max_pages, observed,
                   resolveVars, crawlVars>>

\* discover_all_sitemaps, lines 161-162, 168-169, 175-176: stop_callback
\* answers true before a method and what was found so far is returned
DiscoverStopped ==
    /\ a_pc \in {"robots", "common", "html"}
    /\ a_observed' = TRUE
    /\ EnterCall(all_sitemaps)
    /\ UNCHANGED <<sitemap_urls, all_sitemaps, found_sitemaps,
                   downloaded_sitemaps, sitemap_files, parse_calls,
                   site, pageVars, shellVars, pc, disk, base_url, max_pages, observed,
                   resolveVars, crawlVars>>

\* download_all_sitemaps, lines 198-209, were a failure of parse_sitemap to
\* end the call
ArchiveNextAborts ==
    /\ a_pc = "loop"
    /\ \E u \in a_todo :
        /\ a_todo' = a_todo \ {u}
        /\ a_pc' = IF u \notin found_sitemaps /\ ~Parsed(site, u)
                  THEN "done" ELSE a_pc
        /\ IF u \notin found_sitemaps
           THEN /\ found_sitemaps' = MarkFound(found_sitemaps, u)
                /\ parse_calls' =
                       [parse_calls EXCEPT ![u] = Counted(parse_calls[u])]
                /\ sitemap_files' =
                       IF Fetched(site, u)
                       THEN sitemap_files \cup {SitemapFile(u)}
                       ELSE sitemap_files
                /\ downloaded_sitemaps' =
                       IF Parsed(site, u)
                       THEN Append(downloaded_sitemaps, SitemapInfo(site, u))
                       ELSE downloaded_sitemaps
                /\ nested_sitemaps' =
                       IF Parsed(site, u)
                          /\ SitemapInfo(site, u).type = "sitemapindex"
                       THEN nested_sitemaps \cup SitemapInfo(site, u).sitemaps
                       ELSE nested_sitemaps
           ELSE UNCHANGED <<found_sitemaps, parse_calls, sitemap_files,
                            downloaded_sitemaps, nested_sitemaps>>
    /\ UNCHANGED <<sitemap_urls, all_sitemaps, a_observed,
                   site, pageVars, shellVars, pc, disk, base_url, max_pages, observed,
                   resolveVars, crawlVars>>
\* download_all_sitemaps, lines 198-209: one iteration of the for loop, with
\* parse_sitemap (lines 95-150) for a URL not visited before
ArchiveNext ==
    /\ a_pc = "loop"
    /\ \E u \in a_todo :
        /\ a_todo' = a_todo \ {u}
        /\ IF u \notin found_sitemaps
           THEN /\ found_sitemaps' = MarkFound(found_sitemaps, u)
                /\ parse_calls' =
                       [parse_calls EXCEPT ![u] = Counted(parse_calls[u])]
                /\ sitemap_files' =
                       IF Fetched(site, u)
                       THEN sitemap_files \cup {SitemapFile(u)}
                       ELSE sitemap_files
                /\ downloaded_sitemaps' =
                       IF Parsed(site, u)
                       THEN Append(downloaded_sitemaps, SitemapInfo(site, u))
                       ELSE downloaded_sitemaps
                /\ nested_sitemaps' =
                       IF Parsed(site, u)
                          /\ SitemapInfo(site, u).type = "sitemapindex"
                       THEN nested_sitemaps \cup SitemapInfo(site, u).sitemaps
                       ELSE nested_sitemaps
           ELSE UNCHANGED <<found_sitemaps, parse_calls, sitemap_files,
                            downloaded_sitemaps, nested_sitemaps>>
    /\ UNCHANGED <<a_pc, sitemap_urls, all_sitemaps, a_observed,
                   site, pageVars, shellVars, pc, disk, base_url, max_pages, observed,
                   resolveVars, crawlVars>>

\* download_all_sitemaps, lines 200-202: stop_callback answers true before
\* an iteration; the return ends every enclosing call as well
ArchiveStopped ==
    /\ a_pc = "loop"
    /\ a_todo # {}
    /\ a_observed' = TRUE
    /\ a_pc' = "done"
    /\ UNCHANGED <<sitemap_urls, all_sitemaps, a_todo, nested_sitemaps,
                   found_sitemaps, downloaded_sitemaps, sitemap_files,
                   parse_calls,
                   site, pageVars, shellVars, pc, disk, base_url, max_pages, observed,
                   resolveVars, crawlVars>>

\* download_all_sitemaps, lines 211-216: the loop is over; the call recurses
\* on the children not visited, or returns
ArchiveRecurse ==
    /\ a_pc = "loop"
    /\ a_todo = {}
    /\ IF nested_sitemaps # {}
       THEN EnterCall(Remaining(nested_sitemaps, found_sitemaps))
       ELSE /\ a_pc' = "done"
            /\ UNCHANGED <<a_todo, nested_sitemaps>>
    /\ UNCHANGED <<sitemap_urls, all_sitemaps, found_sitemaps,
                   downloaded_sitemaps, sitemap_files, parse_calls, a_observed,
                   site, pageVars, shellVars, pc, disk, base_url, max_pages, observed,
                   resolveVars, crawlVars>>

ArchiveStep ==
    \/ DownloadAllSitemaps
    \/ DiscoverRobots
    \/ DiscoverCommon
    \/ DiscoverHtml
    \/ DiscoverStopped
    \/ ArchiveNext
    \/ ArchiveStopped
    \/ ArchiveRecurse

\* ------------------------------------------------- specifications
SiteOf(r, h, main, news) ==
    [host |-> BaseHost, robots |-> r, html |-> h, links |-> {},
     doc |-> [s \in SmUrls |-> IF s = SmMain THEN main
                               ELSE IF s = SmNews THEN news ELSE Absent]]

\* the site of Spec: a sitemap index at /sitemap.xml over one urlset
ShellSite == SiteOf({}, {}, IndexOf({SmNews}), UrlSetOf({PgA}))

\* the sites of SpecScrape
Docs == {Absent, NotXml, OtherXml}
        \cup {IndexOf(ch) : ch \in SUBSET {SmMain, SmNews}}
        \cup {UrlSetOf(ls) : ls \in LocSets}
ScrapeSites ==
    {SiteOf(rh[1], rh[2], main, news) :
        rh \in {<<{}, {}>>, <<{SmNews}, {}>>, <<{}, {SmNews}>>},
        main \in Docs, news \in Docs}
\* the max_pages arguments of SpecScrape
ScrapeCaps == {None, Some(-1), Some(0), Some(1)}

\* the sites of SpecRun
RunSites == {SiteOf({}, {}, main, news) : main \in Docs, news \in Docs}

\* The state in which the first n worker threads stand at first_pc, worker 1
\* with the page cap given, and nothing has been fetched or written.
InitState(st, first_pc, cap, running, n, a_first, arg) ==
    /\ site = st
    /\ is_running = running
    /\ should_stop = FALSE
    /\ output_queue = <<>>
    /\ starter = [pc |-> "idle", base |-> BaseUrl, cap |-> None]
    /\ stopper = [pc |-> "idle", requests |-> 0, since |-> 0, origin |-> 0]
    /\ threads = n
    /\ emitted = [w \in Workers |-> <<>>]
    /\ stop_accepted = [w \in Workers |-> FALSE]
    /\ disk = {}
    /\ pc = [w \in Workers |-> IF w <= n THEN first_pc ELSE "unborn"]
    /\ base_url = [w \in Workers |-> BaseUrl]
    /\ max_pages = [w \in Workers |-> IF w <= n THEN cap ELSE None]
    /\ sitemaps_found = [w \in Workers |-> {}]
    /\ todo = [w \in Workers |-> {}]
    /\ all_urls = [w \in Workers |-> {}]
    /\ stack = [w \in Workers |-> <<>>]
    /\ filtered_urls = [w \in Workers |-> {}]
    /\ urls = [w \in Workers |-> {}]
    /\ remaining = [w \in Workers |-> {}]
    /\ cur = [w \in Workers |-> BaseUrl]
    /\ downloaded_urls = [w \in Workers |-> {}]
    /\ failed_urls = [w \in Workers |-> {}]
    /\ pages_data = [w \in Workers |-> <<>>]
    /\ sm_fetches = [w \in Workers |-> [s \in SmUrls |-> 0]]
    /\ page_fetches = [w \in Workers |-> <<>>]
    /\ observed = [w \in Workers |-> FALSE]
    /\ writes = [w \in Workers |-> <<>>]
    /\ a_pc = a_first
    /\ sitemap_urls = arg
    /\ all_sitemaps = {}
    /\ a_todo = {}
    /\ nested_sitemaps = {}
    /\ found_sitemaps = {}
    /\ downloaded_sitemaps = <<>>
    /\ sitemap_files = {}
    /\ parse_calls = [s \in ArchiveUrls |-> 0]
    /\ a_observed = FALSE
    /\ result = [w \in Workers |-> "none"]
    /\ soup = [w \in Workers |-> {}]
    /\ index_html = [w \in Workers |-> <<>>]

\* The control shell from its start: requests to /api/start and /api/stop
\* and the worker threads they start, on one site.
Init == InitState(ShellSite, "unborn", None, FALSE, 0, "idle", None)

Next ==
    \/ StartRequest
    \/ StartClear
    \/ StartSpawn
    \/ StopRequest
    \/ StopSet
    \/ StopNotice
    \/ \E w \in Workers : WorkerStep(w)

Spec == Init /\ [][Next]_vars

\* One scrape_website call of a scraper constructed by run_scraper (after its
\* line 61), with a stop request arriving at any time.
InitScrape ==
    \E st \in ScrapeSites, cap \in ScrapeCaps :
        InitState(st, "gs_discover", cap, TRUE, 1, "idle", None)

NextScrape ==
    \/ ScrapeStep(1)
    \/ StopRequest
    \/ StopSet
    \/ StopNotice

SpecScrape == InitScrape /\ [][NextScrape]_vars

\* One run_scraper thread from the moment start_scraper has started it, with
\* a stop request arriving at any time.
InitRun == \E st \in RunSites : InitState(st, "rs_begin", None, FALSE, 1, "idle", None)

NextRun ==
    \/ WorkerStep(1)
    \/ StopRequest
    \/ StopSet
    \/ StopNotice

SpecRun == InitRun /\ [][NextRun]_vars

\* The worker thread keeps being scheduled (every request it makes has a
\* timeout), and the request thread finishes the stop request it serves.
FairRun ==
    /\ SpecRun
    /\ WF_vars(WorkerStep(1))
    /\ WF_vars(StopSet \/ StopNotice)

\* The download_page calls of one scraper, for any URLs in any order (again
\* for a URL it has downloaded, too), on pages with any links, with a stop
\* request arriving at any time.
LinkSets == {ls \in SUBSET Hrefs : Cardinality(ls) <= MaxLinks}
PageSiteOf(ls) ==
    [host |-> BaseHost, robots |-> {}, html |-> {}, links |-> ls,
     doc |-> [s \in SmUrls |-> Absent]]
InitPage ==
    \E ls \in LinkSets :
        InitState(PageSiteOf(ls), "sw_loop", None, TRUE, 1, "idle", None)

NextPage ==
    \/ DownloadPageCall(1)
    \/ DownloadSkip(1)
    \/ DownloadFail(1)
    \/ DownloadOk(1)
    \/ StopRequest
    \/ StopSet
    \/ StopNotice

SpecPage == InitPage /\ [][NextPage]_vars

\* One QuranSitemapScraper.download_all_sitemaps call on a fresh scraper:
\* with a seed set, or with discovery; stop_callback may answer true at any
\* of its check points.
ArchiveSiteOf(r, h, main, news, plural) ==
    [host |-> BaseHost, robots |-> r, html |-> h, links |-> {},
     doc |-> [s \in SmUrls |-> IF s = SmMain THEN main
                               ELSE IF s = SmNews THEN news
                               ELSE IF s = SmPlural THEN plural ELSE Absent]]
ArchiveDocs == {Absent, NotXml, UrlSetOf({PgA})}
               \cup {IndexOf(ch) : ch \in SUBSET {SmMain, SmNews}}
ArchiveLeaves == {Absent, NotXml, IndexOf({SmNews})}
InitArchive ==
    \E main \in ArchiveDocs, news \in ArchiveDocs, plural \in ArchiveLeaves :
        \/ \E S \in SUBSET ArchiveUrls :
               InitState(ArchiveSiteOf({}, {}, main, news, plural),
                         "unborn", None, FALSE, 0, "call", Some(S))
        \/ \E r \in SUBSET {SmNews}, h \in SUBSET {SmNews} :
               InitState(ArchiveSiteOf(r, h, main, news, plural),
                         "unborn", None, FALSE, 0, "call", None)

NextArchive == ArchiveStep

SpecArchive == InitArchive /\ [][NextArchive]_vars

\* the archive run keeps being scheduled: every request has a timeout
FairArchive == SpecArchive /\ WF_vars(ArchiveStep)

\* ---------------------------------------------------------- claims
Sentinel == "__SCRAPER_FINISHED__"
Kinds(seq) == {seq[i] : i \in 1..Len(seq)}
\* the thread of worker w has been started and has not finished
Alive(w) == pc[w] \notin {"unborn", "done"}

\* C1: at most one run is in progress at any time: two run_scraper workers are
\* never alive simultaneously.
C1_AtMostOneRun == Cardinality({w \in Workers : Alive(w)}) <= 1

\* C2: once the stop flag is set, no page fetch and no sitemap fetch (nested
\* child sitemaps included) is started.
C2_NoFetchOnceStopped ==
    [][should_stop =>
         /\ sm_fetches' = sm_fetches
         /\ page_fetches' = page_fetches]_vars

\* C3: once a run has observed the stop flag at a check point it writes no
\* further artifact, and what was written before stays on disk.
C3_NothingPersistedAfterStop ==
    [][/\ \A w \in Workers : observed[w] => writes'[w] = writes[w]
       /\ disk \subseteq disk']_vars

\* C4: after an accepted stop request the stop flag stays true until the run
\* it was accepted for has ended.
C4_StopStaysSet ==
    \A w \in Workers : stop_accepted[w] /\ InProgress(w) => should_stop

\* C5: every started run eventually puts the completion sentinel on the feed,
\* and a run whose scrape_website raised puts the error message and the trace
\* right before it.
C5_SentinelAlwaysEmitted ==
    /\ \A w \in Workers :
          (pc[w] = "rs_begin") ~>
              (emitted[w] # <<>> /\ emitted[w][Len(emitted[w])] = Sentinel)
    /\ [][\A w \in Workers :
            pc[w] = "sw_raised" /\ pc'[w] # "sw_raised" =>
                emitted'[w] = emitted[w] \o <<"error", "trace">>]_vars
    /\ [](\A w \in Workers :
            pc[w] = "done" /\ "error" \in Kinds(emitted[w]) =>
                /\ Len(emitted[w]) >= 3
                /\ SubSeq(emitted[w], Len(emitted[w]) - 2, Len(emitted[w]))
                     = <<"error", "trace", Sentinel>>)
C5_Witness ==
    \E w \in Workers :
        /\ pc[w] = "done"
        /\ stop_accepted[w]
        /\ sm_fetches[w][SmMain] > 1
        /\ emitted[w] = <<"error", "trace", Sentinel>>

\* C6: a run reports 'stopped' exactly when it observed the stop flag at a
\* check point and broke off, and 'completed' only when it did not.
C6_OutcomeMatchesObservation ==
    \A w \in Workers :
        /\ "stopped" \in Kinds(emitted[w]) => observed[w]
        /\ "completed" \in Kinds(emitted[w]) => ~observed[w]
        /\ pc[w] \in {"rs_finally", "rs_sentinel", "done"}
             /\ "error" \notin Kinds(emitted[w])
             => (observed[w] <=> "stopped" \in Kinds(emitted[w]))

\* C7: on the cyclic sitemap graph (A references B, B references A) each of
\* A and B is fetched at most once.
CyclicSite ==
    /\ site.doc[SmMain] = IndexOf({SmNews})
    /\ site.doc[SmNews] = IndexOf({SmMain})
C7_CycleFetchedOnce ==
    CyclicSite => \A w \in Workers : \A s \in SmUrls : sm_fetches[w][s] <= 1

\* C8: sitemap archival terminates on every sitemap graph and every seed set,
\* and calls parse_sitemap at most once for any sitemap URL.
C8_ArchiveVisitsOnce ==
    /\ [](\A u \in ArchiveUrls : parse_calls[u] <= 1)
    /\ <>(a_pc = "done")
\* a two-sitemap cycle with a self-reference, seeded with both of its members,
\* has been archived to the end without a stop
C8_Witness ==
    /\ a_pc = "done"
    /\ ~a_observed
    /\ sitemap_urls = Some({SmMain, SmNews})
    /\ site.doc[SmMain] = IndexOf({SmMain, SmNews})
    /\ site.doc[SmNews] = IndexOf({SmMain})
    /\ parse_calls[SmMain] = 1
    /\ parse_calls[SmNews] = 1

\* C9: the seed set of get_sitemap_urls is the union of what the three
\* discovery methods find: robots.txt directives, the six well-known paths
\* and the HTML sitemap page.
C9_SeedsAreUnionOfMethods ==
    \A w \in Workers :
        pc[w] \notin {"unborn", "rs_begin", "rs_reset", "gs_discover"}
        /\ base_url[w] = BaseUrl =>
            sitemaps_found[w] = CheckRobotsTxt(site)
                                \cup CheckCommonSitemapLocations(site)
                                \cup CheckHtmlSitemap(site)

\* C10: every URL get_sitemap_urls returns, and every URL scheduled when it
\* returned any, has the base URL's host: no other host and no subdomain.
C10_SameHostOnly ==
    \A w \in Workers :
        /\ \A u \in filtered_urls[w] : HostOf(u) = HostOf(base_url[w])
        /\ filtered_urls[w] # {} =>
               \A u \in urls[w] : HostOf(u) = HostOf(base_url[w])
C10_Witness ==
    /\ pc[1] = "sw_loop"
    /\ all_urls[1] = {PgSub, PgA}
    /\ urls[1] = {PgA}

\* scrape_website has fixed the URLs it schedules (it has passed line 464)
Scheduled(w) ==
    pc[w] \notin {"unborn", "rs_begin", "rs_reset", "gs_discover", "gs_loop",
                  "extract", "sw_urls"}

\* C11: when the filtered URL set is empty the URLs scheduled are exactly the
\* base URL; when it is not, the base URL is not added to them.
C11_EmptyFallback ==
    \A w \in Workers :
        Scheduled(w) =>
            /\ filtered_urls[w] = {} => urls[w] = {base_url[w]}
            /\ filtered_urls[w] # {} => urls[w] \subseteq filtered_urls[w]

\* the filtered URL set with the fallback to the base URL, before the cap
UncappedTarget(w) ==
    IF filtered_urls[w] = {} THEN {base_url[w]} ELSE filtered_urls[w]
Min(a, b) == IF a < b THEN a ELSE b

\* C12: with a positive page cap N and an uncapped target of M URLs exactly
\* min(N, M) URLs are scheduled, each one of the uncapped target, and no more
\* than min(N, M) page fetches are started.
C12_CapEnforced ==
    \A w \in Workers :
        Scheduled(w) /\ max_pages[w] # None /\ ValueOf(max_pages[w]) > 0 =>
            LET k == Min(ValueOf(max_pages[w]), Cardinality(UncappedTarget(w)))
            IN  /\ Cardinality(urls[w]) = k
                /\ urls[w] \subseteq UncappedTarget(w)
                /\ Len(page_fetches[w]) <= k
\* a run capped at one page, with two URLs found, has fetched one page and
\* returned
C12_Witness ==
    /\ pc[1] = "sw_return"
    /\ max_pages[1] = Some(1)
    /\ Cardinality(filtered_urls[1]) > 1
    /\ Len(page_fetches[1]) = 1

\* the distinct files the run wrote under pages/
PageFilesWritten(w) ==
    {writes[w][i] : i \in {j \in 1..Len(writes[w]) : writes[w][j][1] = "pages"}}

\* C13: in the final report the downloaded count equals the number of
\* PageRecords and the number of distinct page files the run wrote.
C13_ReportConsistent ==
    \A w \in Workers :
        pc[w] = "sw_return" =>
            /\ Cardinality(downloaded_urls[w]) = Len(pages_data[w])
            /\ Len(pages_data[w]) = Cardinality(PageFilesWritten(w))

\* the page GETs the run started for URL u
RECURSIVE Count(_, _)
Count(u, seq) ==
    IF seq = <<>> THEN 0
    ELSE (IF Head(seq) = u THEN 1 ELSE 0) + Count(u, Tail(seq))
\* the page loop of scrape_website is over
LoopOver(w) == pc[w] \in {"sw_index", "sw_report", "sw_return", "sw_raised"}

\* C14: in a run that observed no stop every scheduled URL is fetched exactly
\* once, without a retry after a failure, and ends in exactly one of the
\* downloaded set and the failed set.
C14_EachTargetOnce ==
    \A w \in Workers :
        LoopOver(w) /\ ~observed[w] =>
            \A u \in urls[w] :
                /\ Count(u, page_fetches[w]) = 1
                /\ (u \in downloaded_urls[w]) # (u \in failed_urls[w])
\* a run of two targets, the first of which failed and the second of which
\* was saved, has ended without a stop
C14_Witness ==
    /\ pc[1] = "sw_return"
    /\ ~observed[1]
    /\ ~should_stop
    /\ Len(page_fetches[1]) = 2
    /\ Cardinality(urls[1]) = 2
    /\ page_fetches[1][1] \in failed_urls[1]
    /\ page_fetches[1][2] \in downloaded_urls[1]

\* C15: download_page on a URL already in the downloaded set returns success
\* without a fetch and leaves the downloaded set, the failed set, the
\* PageRecords and the files as they are, also when the stop flag is set.
C15_AlreadyDownloadedNoop ==
    [][\A w \in Workers :
         /\ pc[w] = "download_page"
         /\ cur[w] \in downloaded_urls[w]
         /\ pc'[w] # "download_page"
         => /\ ReturnValue(result'[w])
            /\ page_fetches'[w] = page_fetches[w]
            /\ downloaded_urls'[w] = downloaded_urls[w]
            /\ failed_urls'[w] = failed_urls[w]
            /\ pages_data'[w] = pages_data[w]
            /\ disk' = disk]_vars
\* after a call that saw the stop flag set, a call for a URL downloaded
\* before has returned
C15_Witness ==
    /\ observed[1]
    /\ should_stop
    /\ result[1] = "already"
    /\ cur[1] \in downloaded_urls[1]
    /\ pc[1] = "sw_loop"

\* C16: a target that does not parse as an absolute URL with a scheme and a
\* host is rejected: start_scraper goes on to clear no feed and starts no
\* worker thread for it.
C16_InvalidTargetRejected ==
    /\ starter.pc # "idle" => starter.base.host # <<>>
    /\ \A w \in Workers : pc[w] # "unborn" => base_url[w].host # <<>>

\* the path of an artifact below offline_website/, written with "/"
FilePath(f) == IF Len(f) = 1 THEN <<f[1]>> ELSE <<f[1], "/">> \o f[2]
\* a relative href resolved against the file that holds it
ResolveAt(file, href) == DirOf(FilePath(file)) \o href.path

\* C17: in a saved page every same-domain <a href> is the sanitized filename
\* of the link's absolute URL, a relative path that, resolved where the page
\* is saved, names the file download_page saves the linked page under; every
\* cross-domain href is unchanged and annotated.
C17_LinksRewritten ==
    \A w \in Workers :
        pages_data[w] # <<>> =>
            LET page == pages_data[w][Len(pages_data[w])] IN
            \A a \in soup[w] :
                LET absolute_url == urljoin(page.url, a.orig)
                    name == sanitize_filename(absolute_url)
                IN  IF HostOf(absolute_url) = HostOf(base_url[w])
                    THEN /\ a.href = Url(<<>>, "", name)
                         /\ ResolveAt(page.filepath, a.href)
                                = FilePath(PageFile(name))
                    ELSE /\ a.href = a.orig
                         /\ a.target = "_blank"
                         /\ a.rel = "noopener noreferrer"

\* C18: a stop request made while is_running is false is rejected, and no run
\* observes a stop flag set by a stop request that was made before the run
\* was started.
C18_NoStaleStop ==
    [][/\ ~is_running /\ stopper'.requests > stopper.requests
            => stopper'.pc = "idle"
       /\ \A w \in Workers :
            ~observed[w] /\ observed'[w] => stopper.origin >= w]_vars

\* the seed set of the outermost download_all_sitemaps call
ArchiveSeeds ==
    IF sitemap_urls = None THEN all_sitemaps ELSE ValueOf(sitemap_urls)
\* the sitemap URLs linked to S through indexes that were fetched and parsed
RECURSIVE Frontiers(_)
Frontiers(S) ==
    LET more == S \cup UNION {site.doc[u].children :
                                u \in {v \in S : site.doc[v].kind = "index"}}
    IN  IF more = S THEN S ELSE Frontiers(more)

\* C19: a failure on one sitemap URL never aborts the archival: without a
\* stop, every URL of the seed set and of the later frontiers is resolved,
\* and a URL that failed has no SitemapDocument.
C19_FailureDoesNotAbort ==
    a_pc = "done" /\ ~a_observed =>
        /\ \A u \in Frontiers(ArchiveSeeds) : parse_calls[u] = 1
        /\ \A i \in 1..Len(downloaded_sitemaps) :
              Parsed(site, downloaded_sitemaps[i].url)
\* an archive run whose seeds are a URL that cannot be fetched and an index,
\* the child of which is not XML, has resolved all three and kept the index
C19_Witness ==
    /\ a_pc = "done"
    /\ ~a_observed
    /\ sitemap_urls = Some({SmMain, SmPlural})
    /\ site.doc[SmMain] = Absent
    /\ site.doc[SmPlural] = IndexOf({SmNews})
    /\ site.doc[SmNews] = NotXml
    /\ \A u \in ArchiveUrls : parse_calls[u] = 1
    /\ Len(downloaded_sitemaps) = 1

\* C20: a failed fetch or parse leaves no artifact of that resource: no file
\* under sitemaps/ for a sitemap URL whose parse_sitemap failed, and no page
\* file for a page URL whose download_page failed.
C20_NoArtifactOnFailure ==
    /\ \A u \in ArchiveUrls :
          parse_calls[u] >= 1 /\ ~Parsed(site, u) =>
              SitemapFile(u) \notin sitemap_files
    /\ \A w \in Workers : \A u \in failed_urls[w] \ downloaded_urls[w] :
          PageFile(sanitize_filename(u)) \in disk =>
              \E i \in 1..Len(pages_data[w]) :
                  /\ pages_data[w][i].url # u
                  /\ pages_data[w][i].filename = sanitize_filename(u)

\* the run has written index.html
IndexWritten(w) == \E i \in 1..Len(writes[w]) : writes[w][i] = IndexFile

\* C21: the index document has exactly one entry for each PageRecord of the
\* run, linking to the record's local path, in ascending order of the
\* lower-cased title, and no entry for a URL that failed or was not attempted.
C21_IndexListsRecords ==
    \A w \in Workers :
        IndexWritten(w) =>
            LET index == index_html[w]
                records == [i \in 1..Len(pages_data[w]) |->
                               [title |-> pages_data[w][i].title,
                                url |-> pages_data[w][i].url,
                                href |-> pages_data[w][i].filepath]]
            IN  /\ Len(index) = Len(records)
                /\ \A i \in 1..Len(index) :
                      /\ Count(index[i], index) = Count(index[i], records)
                      /\ index[i].href
                             = PageFile(sanitize_filename(index[i].url))
                      /\ index[i].url \in downloaded_urls[w]
                      /\ index[i].url \notin failed_urls[w]
                /\ \A i, j \in 1..Len(index) :
                      i < j => ~StrLess(Lower(index[j].title),
                                        Lower(index[i].title))
\* the page titled "B" was saved before the page titled "a", and the index
\* lists "a" first
C21_Witness ==
    /\ pc[1] = "sw_return"
    /\ Len(pages_data[1]) = 2
    /\ pages_data[1][1].title = <<"B">>
    /\ Len(index_html[1]) = 2
    /\ index_html[1][1].title = <<"a">>
    /\ index_html[1][2].title = <<"B">>

\* the last item of the feed is the completion sentinel of run w
SentinelLast(w) ==
    /\ output_queue # <<>>
    /\ output_queue[Len(output_queue)] = <<w, Sentinel>>

\* C22: once run_scraper has put the completion sentinel, nothing more is put
\* on the output queue until a later start request is accepted: while the
\* sentinel of the latest run is the last item and no start request is past
\* its checks, a step leaves the queue as it is.
C22_SentinelIsFinal ==
    [][(SentinelLast(threads) /\ starter.pc = "idle" /\ threads' = threads
        /\ starter'.pc = "idle")
          => output_queue' = output_queue]_vars

\* get_status: the answer of a status query
get_status == IF is_running THEN "running" ELSE "stopped"
\* stop_scraper, line 135: a stop request made now is accepted
StopAccepted == is_running
\* run w was started by an accepted request and has not yet reached the end
\* of run_scraper's body (the finally clause)
RunUnderWay(w) == pc[w] \notin {"unborn", "rs_sentinel", "done"}

\* C23: the run-in-progress flag is true from the moment the start request
\* returns accepted until the run ends and false otherwise: while a run is
\* under way a status query answers running and a stop request is accepted,
\* and with no run under way a status query answers stopped.
C23_FlagTracksRun ==
    IF \E w \in Workers : RunUnderWay(w)
    THEN get_status = "running" /\ StopAccepted
    ELSE get_status = "stopped"

\* the run has written scrape_report.json
ReportWritten(w) == \E i \in 1..Len(writes[w]) : writes[w][i] = ReportFile
\* s is an initial part of t
IsPrefix(s, t) == Len(s) <= Len(t) /\ \A i \in 1..Len(s) : s[i] = t[i]

\* C24: in a run of scrape_website that returns normally scrape_report.json is
\* written exactly once and is the last write of the run, after index.html and
\* after the last page fetch; the downloaded set, the failed set and the
\* PageRecord sequence only grow, and nothing is fetched, written or recorded
\* once the report is written.
C24_ReportOnceAtEnd ==
    [][\A w \in Workers :
          /\ downloaded_urls[w] \subseteq downloaded_urls'[w]
          /\ failed_urls[w] \subseteq failed_urls'[w]
          /\ IsPrefix(pages_data[w], pages_data'[w])
          /\ ReportWritten(w) =>
                /\ downloaded_urls'[w] = downloaded_urls[w]
                /\ failed_urls'[w] = failed_urls[w]
                /\ pages_data'[w] = pages_data[w]
                /\ page_fetches'[w] = page_fetches[w]
                /\ writes'[w] = writes[w]
          /\ pc'[w] = "sw_return" =>
                /\ Count(ReportFile, writes'[w]) = 1
                /\ writes'[w][Len(writes'[w])] = ReportFile]_vars
\* a run returned with a saved page, a failed page, the index and the report
C24_Witness ==
    /\ pc[1] = "sw_return"
    /\ failed_urls[1] # {}
    /\ Len(pages_data[1]) = 1
    /\ Len(writes[1]) = 3
    /\ writes[1][2] = IndexFile
    /\ writes[1][3] = ReportFile

\* C25: during a run of scrape_website the downloaded set and the failed set
\* are disjoint, the URL of every PageRecord is in the downloaded set, and a
\* target that download_page skipped because the stop flag was set is in
\* neither set.
C25_SetsDisjoint ==
    \A w \in Workers :
        /\ downloaded_urls[w] \cap failed_urls[w] = {}
        /\ \A i \in 1..Len(pages_data[w]) :
              pages_data[w][i].url \in downloaded_urls[w]
        /\ result[w] = "stopped" =>
              cur[w] \notin downloaded_urls[w] \cup failed_urls[w]
\* download_page skipped a target on the stop flag, after another target was
\* fetched, and the run has returned
C25_Witness ==
    /\ pc[1] = "sw_return"
    /\ result[1] = "stopped"
    /\ page_fetches[1] # <<>>
    /\ cur[1] \in urls[1]

\* C26: a page cap that is absent, zero or negative leaves the crawl target
\* untruncated: with a max_pages that is not a positive integer every URL of
\* the filtered target set is scheduled.
C26_NonPositiveCapUntruncated ==
    \A w \in Workers :
        Scheduled(w) /\ (max_pages[w] = None \/ ValueOf(max_pages[w]) <= 0) =>
            urls[w] = UncappedTarget(w)

\* the latest start request has cleared the feed and started its run
RunAccepted(n) == threads = n /\ pc[n] # "unborn"

\* C27: once start_scraper has cleared the output queue and accepted run N, the
\* queue holds no progress item and no completion sentinel put by an earlier
\* run: every item is of run N or a notice of stop_scraper.
C27_NoItemOfEarlierRun ==
    \A n \in Workers :
        RunAccepted(n) =>
            \A i \in 1..Len(output_queue) : output_queue[i][1] \in {0, n}

=============================================================================
